---- MODULE Spec2Model ----
(***************************************************************************)
(* newl: line-ending normaliser (src/src/main.rs).                         *)
(*                                                                         *)
(* Two specifications:                                                     *)
(*   SpecT  the transform applied as the unit tests apply it               *)
(*          (tests::test): a byte sequence and a target go in, the output  *)
(*          comes out, and the output is fed back once more.               *)
(*   Spec   one run of main(): the stdin subcommand or the base command    *)
(*          (glob expansion, selection, the processing loop with its       *)
(*          temp file and fs::copy, every `?` and exit_with_error path).   *)
(***************************************************************************)
EXTENDS Integers, Sequences, FiniteSets, TLC

VARIABLES
    matches,       \* the parsed command line (clap ArgMatches)
    stdin_bytes,   \* what standard input holds
    fs,            \* content of every regular file on disk
    pc,            \* position of main()
    status,        \* "running", or how the process ended
    excluded,      \* main: excluded (HashSet<PathBuf>)
    paths,         \* main: paths (Vec<PathBuf>)
    gi,            \* index of the next pattern the flat_map pulls
    i,             \* index into paths of the for loop
    temp,          \* the temp file of the unit in progress
    handles,       \* file handles the process holds open
    iter,          \* bytes the input iterator has not yielded yet
    sink,          \* where the unit's writer writes: "none", "stdout", "temp", "file"
    bufw,          \* bytes held by the BufWriter over the temp file
    stdout_lines,  \* lines written to stdout by writeln!
    stdout_bytes,  \* raw bytes written to stdout by a writer
    t_eol,         \* tests::test: eol
    t_in,          \* tests::test: input
    t_out          \* tests::test: the outputs obtained so far

vars == <<matches, stdin_bytes, fs, pc, status, excluded, paths, gi, i, temp,
          handles, iter, sink, bufw, stdout_lines, stdout_bytes,
          t_eol, t_in, t_out>>

runVars == <<matches, stdin_bytes, fs, pc, status, excluded, paths, gi, i, temp,
             handles, iter, sink, bufw, stdout_lines, stdout_bytes>>

testVars == <<t_eol, t_in, t_out>>

----------------------------------------------------------------------------
(* Bytes *)

CR == 13

LF == 10

\* an ordinary byte, b'x' of the unit tests
OtherByte == 120

\* longest byte sequence drawn as an input of the transform
MaxLen == 3

\* most patterns (include and exclude together) on one command line
MaxPatterns == 3

Bytes == {CR, LF, OtherByte}

\* the sequences over S of length lo to hi
SeqsBetween(S, lo, hi) == UNION {[1..n -> S] : n \in lo..hi}

Inputs == SeqsBetween(Bytes, 0, MaxLen)

Eols == {"Lf", "Crlf", "Cr"}

----------------------------------------------------------------------------
(* The writer and the transform *)

\* DebugWriter::write, one byte of buf: the bytes handed to the inner writer
DebugWriterByte(byte) ==
    IF byte = LF THEN <<92, 110>>
    ELSE IF byte = CR THEN <<92, 114>>
    ELSE <<byte>>

\* a slip: only the first byte of buf is looked at, the rest is passed on raw
DebugWriterWriteFirstOnly(buf) ==
    IF buf = <<>> THEN <<>> ELSE DebugWriterByte(Head(buf)) \o Tail(buf)

\* DebugWriter::write(buf): every byte of buf in turn
RECURSIVE DebugWriterWrite(_)
DebugWriterWrite(buf) ==
    IF buf = <<>> THEN <<>>
    ELSE DebugWriterByte(Head(buf)) \o DebugWriterWrite(Tail(buf))

\* writer(w, debug).write_all(buf): the bytes that reach w
WriteAll(debug, buf) == IF debug THEN DebugWriterWrite(buf) ELSE buf

\* iter.next_if(|&n| n == LF): the iterator afterwards
NextIfLF(rest) ==
    IF rest # <<>> /\ Head(rest) = LF THEN Tail(rest) ELSE rest

\* a slip: no lookahead after a CR, so the LF of a \r\n pair is met again
ConvertStepNoPeek(bytes, target) ==
    LET byte == Head(bytes)
        rest == Tail(bytes)
    IN  IF byte = LF \/ byte = CR THEN [buf |-> target, iter |-> rest]
        ELSE [buf |-> <<byte>>, iter |-> rest]

\* one turn of convert's while loop on a non-empty iterator:
\* the buffer given to write_all and the iterator afterwards
ConvertStep(bytes, target) ==
    LET byte == Head(bytes)
        rest == Tail(bytes)
    IN  IF byte = LF THEN [buf |-> target, iter |-> rest]
        ELSE IF byte = CR THEN [buf |-> target, iter |-> NextIfLF(rest)]
        ELSE [buf |-> <<byte>>, iter |-> rest]

\* convert, run to the end of the iterator: everything the sink receives
RECURSIVE convert(_, _, _)
convert(bytes, target, debug) ==
    IF bytes = <<>> THEN <<>>
    ELSE LET s == ConvertStep(bytes, target)
         IN  WriteAll(debug, s.buf) \o convert(s.iter, target, debug)

\* a slip: the two bytes of the CRLF target in the wrong order
transform_fnSwapped(eol) ==
    CASE eol = "Lf" -> <<LF>>
      [] eol = "Crlf" -> <<LF, CR>>
      [] eol = "Cr" -> <<CR>>

\* Eol::transform_fn: the target each variant passes to convert
transform_fn(eol) ==
    CASE eol = "Lf" -> <<LF>>
      [] eol = "Crlf" -> <<CR, LF>>
      [] eol = "Cr" -> <<CR>>

\* tests::test(eol, input)
test(eol, input) == convert(input, transform_fn(eol), FALSE)

----------------------------------------------------------------------------
(* The file system the run starts on: directory /w (the working directory) *)
(* holds the regular files a.txt and b.txt and the directory adir.         *)

Files == {"a.txt", "b.txt"}

Disk0 == [f \in Files |-> IF f = "a.txt" THEN <<OtherByte, CR, LF>> ELSE <<CR>>]

\* the file a PathBuf names; "/w/a.txt" and "a.txt" are two spellings of one file
FileOf(path) == IF path = "/w/a.txt" THEN "a.txt" ELSE path

\* Path::is_file
is_file(path) == FileOf(path) \in Files

\* the patterns a command line is drawn from
Patterns == {"*.txt", "a*", "/w/a.txt", "["}

\* glob::glob_with(p, options) is Err(PatternError)
PatternError(p) == p = "["

\* the paths glob::glob_with(p, options) yields on this directory, in its order:
\* a relative pattern yields relative paths, an absolute one absolute paths
Glob(p) ==
    CASE p = "*.txt" -> <<"a.txt", "b.txt">>
      [] p = "a*" -> <<"a.txt", "adir">>
      [] p = "/w/a.txt" -> <<"/w/a.txt">>
      [] OTHER -> <<>>

\* .filter(|p| p.is_file())
RECURSIVE FilterFiles(_)
FilterFiles(ps) ==
    IF ps = <<>> THEN <<>>
    ELSE IF is_file(Head(ps)) THEN <<Head(ps)>> \o FilterFiles(Tail(ps))
    ELSE FilterFiles(Tail(ps))

\* .filter(|p| !excluded.contains(p)): PathBuf equality, spelling by spelling
RECURSIVE FilterExcluded(_, _)
FilterExcluded(ps, excl) ==
    IF ps = <<>> THEN <<>>
    ELSE IF Head(ps) \in excl THEN FilterExcluded(Tail(ps), excl)
    ELSE <<Head(ps)>> \o FilterExcluded(Tail(ps), excl)

Range(s) == {s[k] : k \in DOMAIN s}

NoTemp == [exists |-> FALSE, content |-> <<>>]

\* the command lines clap accepts: n include patterns, and exclude patterns
\* up to MaxPatterns in all
BaseMatches ==
    UNION {{[sub |-> "base", eol |-> e, debug |-> d, dry_run |-> dry,
             include |-> inc, exclude |-> exc, file |-> "", stdout |-> FALSE] :
                e \in Eols, d \in BOOLEAN, dry \in BOOLEAN,
                inc \in SeqsBetween(Patterns, n, n),
                exc \in SeqsBetween(Patterns, 0, MaxPatterns - n)} :
           n \in 1..MaxPatterns}

StdinMatches ==
    {[sub |-> "stdin", eol |-> e, debug |-> d, dry_run |-> FALSE,
      include |-> <<>>, exclude |-> <<>>, file |-> f, stdout |-> p] :
        e \in Eols, d \in BOOLEAN, f \in {"", "a.txt", "adir"}, p \in BOOLEAN}

\* cli(): include is required by the base command; file is required by stdin
\* unless debug is present, and conflicts with stdout
Accepted(m) ==
    IF m.sub = "base"
    THEN Len(m.include) >= 1
    ELSE /\ ~(m.file # "" /\ m.stdout)
         /\ (m.file = "" /\ ~m.stdout) => m.debug

----------------------------------------------------------------------------
(* One run of main() *)

Init ==
    /\ matches \in {m \in BaseMatches \cup StdinMatches : Accepted(m)}
    /\ stdin_bytes \in (IF matches.sub = "stdin" THEN Inputs ELSE {<<>>})
    /\ fs = Disk0
    /\ pc = "main"
    /\ status = "running"
    /\ excluded = {}
    /\ paths = <<>>
    /\ gi = 1
    /\ i = 1
    /\ temp = NoTemp
    /\ handles = {}
    /\ iter = <<>>
    /\ sink = "none"
    /\ bufw = <<>>
    /\ stdout_lines = <<>>
    /\ stdout_bytes = <<>>
    /\ t_eol = "Lf"
    /\ t_in = <<>>
    /\ t_out = <<>>

\* std::process::exit(1): the process ends at once, no destructor runs; the
\* operating system closes the handles
exit_with_error ==
    /\ pc' = "exited"
    /\ status' = "exit_with_error"
    /\ handles' = {}
    /\ UNCHANGED temp

\* main returns Err through `?`: the locals are dropped (TempFile deletes its
\* file, the handles close), the status is 1
ReturnErr ==
    /\ pc' = "exited"
    /\ status' = "err_return"
    /\ handles' = {}
    /\ temp' = NoTemp

\* lines 183-214: the stdin subcommand picks its output
StdinToStdout ==
    /\ pc = "main"
    /\ matches.sub = "stdin"
    /\ matches.debug \/ (matches.file = "" /\ matches.stdout)
    /\ pc' = "convert"
    /\ sink' = "stdout"
    /\ iter' = stdin_bytes
    /\ UNCHANGED <<matches, stdin_bytes, fs, status, excluded, paths, gi, i, temp,
                   handles, bufw, stdout_lines, stdout_bytes, testVars>>

StdinToFile ==
    /\ pc = "main"
    /\ matches.sub = "stdin"
    /\ ~matches.debug
    /\ matches.file # ""
    /\ pc' = "stdin_open"
    /\ UNCHANGED <<matches, stdin_bytes, fs, status, excluded, paths, gi, i, temp,
                   handles, iter, sink, bufw, stdout_lines, stdout_bytes, testVars>>

\* lines 192-194: output.exists() && !output.is_file()
StdinNotFile ==
    /\ pc = "stdin_open"
    /\ ~is_file(matches.file)
    /\ exit_with_error
    /\ UNCHANGED <<matches, stdin_bytes, fs, excluded, paths, gi, i,
                   iter, sink, bufw, stdout_lines, stdout_bytes, testVars>>

\* lines 198-203: create(true).write(true).truncate(true).open(output)
StdinOpenFile ==
    /\ pc = "stdin_open"
    /\ is_file(matches.file)
    /\ fs' = [fs EXCEPT ![FileOf(matches.file)] = <<>>]
    /\ handles' = handles \cup {"output"}
    /\ sink' = "file"
    /\ iter' = stdin_bytes
    /\ pc' = "convert"
    /\ UNCHANGED <<matches, stdin_bytes, status, excluded, paths, gi, i, temp,
                   bufw, stdout_lines, stdout_bytes, testVars>>

StdinOpenErr ==
    /\ pc = "stdin_open"
    /\ is_file(matches.file)
    /\ exit_with_error
    /\ UNCHANGED <<matches, stdin_bytes, fs, excluded, paths, gi, i,
                   iter, sink, bufw, stdout_lines, stdout_bytes, testVars>>

\* lines 216-221: the base command starts on its patterns
BaseStart ==
    /\ pc = "main"
    /\ matches.sub = "base"
    /\ pc' = IF matches.exclude = <<>> THEN "include" ELSE "exclude"
    /\ gi' = 1
    /\ UNCHANGED <<matches, stdin_bytes, fs, status, excluded, paths, i, temp,
                   handles, iter, sink, bufw, stdout_lines, stdout_bytes, testVars>>

\* lines 223-230: the flat_map pulls exclude pattern gi; collect::<HashSet<_>>()
\* drains the whole chain before the include patterns are looked at
GlobExclude ==
    /\ pc = "exclude"
    /\ ~PatternError(matches.exclude[gi])
    /\ excluded' = excluded \cup Range(FilterFiles(Glob(matches.exclude[gi])))
    /\ IF gi < Len(matches.exclude)
       THEN gi' = gi + 1 /\ pc' = pc
       ELSE gi' = 1 /\ pc' = "include"
    /\ UNCHANGED <<matches, stdin_bytes, fs, status, paths, i, temp,
                   handles, iter, sink, bufw, stdout_lines, stdout_bytes, testVars>>

\* line 225: glob_with(..).unwrap_or_else(|e| exit_with_error(e))
GlobExcludeInvalid ==
    /\ pc = "exclude"
    /\ PatternError(matches.exclude[gi])
    /\ exit_with_error
    /\ UNCHANGED <<matches, stdin_bytes, fs, excluded, paths, gi, i,
                   iter, sink, bufw, stdout_lines, stdout_bytes, testVars>>

\* lines 233-239: the flat_map pulls include pattern gi; collect::<Vec<_>>()
\* drains the whole chain before the for loop starts
GlobInclude ==
    /\ pc = "include"
    /\ ~PatternError(matches.include[gi])
    /\ paths' = paths \o FilterExcluded(FilterFiles(Glob(matches.include[gi])), excluded)
    /\ IF gi < Len(matches.include)
       THEN gi' = gi + 1 /\ pc' = pc /\ i' = i
       ELSE gi' = gi /\ pc' = "loop" /\ i' = 1
    /\ UNCHANGED <<matches, stdin_bytes, fs, status, excluded, temp,
                   handles, iter, sink, bufw, stdout_lines, stdout_bytes, testVars>>

\* a slip: the bad pattern is dropped (.flat_map(|p| glob_with(..).ok())) and
\* the run goes on with the patterns left
GlobIncludeSkipInvalid ==
    /\ pc = "include"
    /\ PatternError(matches.include[gi])
    /\ IF gi < Len(matches.include)
       THEN gi' = gi + 1 /\ pc' = pc /\ i' = i
       ELSE gi' = gi /\ pc' = "loop" /\ i' = 1
    /\ UNCHANGED <<matches, stdin_bytes, fs, status, excluded, paths, temp,
                   handles, iter, sink, bufw, stdout_lines, stdout_bytes, testVars>>

\* line 235: glob_with(..).unwrap_or_else(|e| exit_with_error(e))
GlobIncludeInvalid ==
    /\ pc = "include"
    /\ PatternError(matches.include[gi])
    /\ exit_with_error
    /\ UNCHANGED <<matches, stdin_bytes, fs, excluded, paths, gi, i,
                   iter, sink, bufw, stdout_lines, stdout_bytes, testVars>>

\* lines 226, 236: a directory cannot be read while a pattern is expanded
\* (GlobError): p.unwrap_or_else(|e| exit_with_error(e))
GlobError ==
    /\ pc \in {"exclude", "include"}
    /\ exit_with_error
    /\ UNCHANGED <<matches, stdin_bytes, fs, excluded, paths, gi, i,
                   iter, sink, bufw, stdout_lines, stdout_bytes, testVars>>

\* a slip: debug is looked at before dry_run
UnitBranchDebugFirst(m) ==
    IF m.debug THEN "debug" ELSE IF m.dry_run THEN "dry_run" ELSE "convert"

\* lines 253, 260, 264: what the loop body does with a path
UnitBranch(m) ==
    IF m.dry_run THEN "dry_run" ELSE IF m.debug THEN "debug" ELSE "convert"

\* line 273: the loop is over, main returns Ok(())
ReturnOk ==
    /\ pc = "loop"
    /\ i > Len(paths)
    /\ pc' = "exited"
    /\ status' = "ok"
    /\ handles' = {}
    /\ temp' = NoTemp
    /\ UNCHANGED <<matches, stdin_bytes, fs, excluded, paths, gi, i,
                   iter, sink, bufw, stdout_lines, stdout_bytes, testVars>>

\* lines 253-256: writeln!(stdout, "{}", path.display())?; continue
DryRunPrint ==
    /\ pc = "loop"
    /\ i <= Len(paths)
    /\ UnitBranch(matches) = "dry_run"
    /\ stdout_lines' = Append(stdout_lines, paths[i])
    /\ i' = i + 1
    /\ UNCHANGED <<matches, stdin_bytes, fs, pc, status, excluded, paths, gi, temp,
                   handles, iter, sink, bufw, stdout_bytes, testVars>>

DryRunPrintErr ==
    /\ pc = "loop"
    /\ i <= Len(paths)
    /\ UnitBranch(matches) = "dry_run"
    /\ ReturnErr
    /\ UNCHANGED <<matches, stdin_bytes, fs, excluded, paths, gi, i,
                   iter, sink, bufw, stdout_lines, stdout_bytes, testVars>>

\* lines 260-263: the unit writes to writer(stdout, debug)
DebugUnit ==
    /\ pc = "loop"
    /\ i <= Len(paths)
    /\ UnitBranch(matches) = "debug"
    /\ sink' = "stdout"
    /\ pc' = "file_open"
    /\ UNCHANGED <<matches, stdin_bytes, fs, status, excluded, paths, gi, i, temp,
                   handles, iter, bufw, stdout_lines, stdout_bytes, testVars>>

\* line 265: temp_file::empty() creates an empty file
TempEmpty ==
    /\ pc = "loop"
    /\ i <= Len(paths)
    /\ UnitBranch(matches) = "convert"
    /\ temp' = [exists |-> TRUE, content |-> <<>>]
    /\ pc' = "temp_open"
    /\ UNCHANGED <<matches, stdin_bytes, fs, status, excluded, paths, gi, i,
                   handles, iter, sink, bufw, stdout_lines, stdout_bytes, testVars>>

\* line 265: temp_file::empty() panics when the file cannot be created; the
\* stack unwinds and the process ends with status 101
TempEmptyPanic ==
    /\ pc = "loop"
    /\ i <= Len(paths)
    /\ UnitBranch(matches) = "convert"
    /\ pc' = "exited"
    /\ status' = "panic"
    /\ handles' = {}
    /\ temp' = NoTemp
    /\ UNCHANGED <<matches, stdin_bytes, fs, excluded, paths, gi, i,
                   iter, sink, bufw, stdout_lines, stdout_bytes, testVars>>

\* lines 266-267: OpenOptions::new().write(true).open(temp.path())?, BufWriter::new
TempOpen ==
    /\ pc = "temp_open"
    /\ handles' = handles \cup {"output"}
    /\ sink' = "temp"
    /\ bufw' = <<>>
    /\ pc' = "file_open"
    /\ UNCHANGED <<matches, stdin_bytes, fs, status, excluded, paths, gi, i, temp,
                   iter, stdout_lines, stdout_bytes, testVars>>

TempOpenErr ==
    /\ pc = "temp_open"
    /\ ReturnErr
    /\ UNCHANGED <<matches, stdin_bytes, fs, excluded, paths, gi, i,
                   iter, sink, bufw, stdout_lines, stdout_bytes, testVars>>

\* lines 127-131: File::open(path)?, BufReader, bytes()
FileOpen ==
    /\ pc = "file_open"
    /\ handles' = handles \cup {"input"}
    /\ iter' = fs[FileOf(paths[i])]
    /\ pc' = "convert"
    /\ UNCHANGED <<matches, stdin_bytes, fs, status, excluded, paths, gi, i, temp,
                   sink, bufw, stdout_lines, stdout_bytes, testVars>>

FileOpenErr ==
    /\ pc = "file_open"
    /\ ReturnErr
    /\ UNCHANGED <<matches, stdin_bytes, fs, excluded, paths, gi, i,
                   iter, sink, bufw, stdout_lines, stdout_bytes, testVars>>

\* an Err that file_to_output or stdin_to_output returns: the base command
\* passes it on with `?` (lines 263, 268), the stdin subcommand hands it to
\* exit_with_error (lines 189, 204, 210)
UnitErr == IF matches.sub = "stdin" THEN exit_with_error ELSE ReturnErr

\* lines 292-301: one turn of convert's loop, its write_all reaching the sink
ConvertIter ==
    /\ pc = "convert"
    /\ iter # <<>>
    /\ LET s == ConvertStep(iter, transform_fn(matches.eol))
           w == WriteAll(matches.debug, s.buf)
       IN  /\ iter' = s.iter
           /\ stdout_bytes' = IF sink = "stdout" THEN stdout_bytes \o w ELSE stdout_bytes
           /\ bufw' = IF sink = "temp" THEN bufw \o w ELSE bufw
           /\ fs' = IF sink = "file"
                    THEN [fs EXCEPT ![FileOf(matches.file)] = @ \o w]
                    ELSE fs
    /\ UNCHANGED <<matches, stdin_bytes, pc, status, excluded, paths, gi, i, temp,
                   handles, sink, stdout_lines, testVars>>

\* line 292: iter.next() is None, convert returns Ok(())
ConvertEnd ==
    /\ pc = "convert"
    /\ iter = <<>>
    /\ pc' = "flush"
    /\ UNCHANGED <<matches, stdin_bytes, fs, status, excluded, paths, gi, i, temp,
                   handles, iter, sink, bufw, stdout_lines, stdout_bytes, testVars>>

\* lines 117, 131: a read fails, r.unwrap_or_else(|e| exit_with_error(e))
ReadErr ==
    /\ pc = "convert"
    /\ exit_with_error
    /\ UNCHANGED <<matches, stdin_bytes, fs, excluded, paths, gi, i,
                   iter, sink, bufw, stdout_lines, stdout_bytes, testVars>>

\* lines 294, 297, 299: writer.write_all(..)? fails
WriteErr ==
    /\ pc = "convert"
    /\ iter # <<>>
    /\ UnitErr
    /\ UNCHANGED <<matches, stdin_bytes, fs, excluded, paths, gi, i,
                   iter, sink, bufw, stdout_lines, stdout_bytes, testVars>>

\* lines 120-121, 134-135: output.flush()? and the unit function returns Ok:
\* its input and output are dropped. The stdin subcommand then returns from
\* main (line 213); the debug branch goes to the next path; the other branch
\* goes on to fs::copy
Flush ==
    /\ pc = "flush"
    /\ temp' = IF sink = "temp" THEN [temp EXCEPT !.content = bufw] ELSE temp
    /\ sink' = "none"
    /\ IF matches.sub = "stdin"
       THEN /\ pc' = "exited"
            /\ status' = "ok"
            /\ handles' = {}
            /\ i' = i
       ELSE /\ handles' = handles \ {"input", "output"}
            /\ status' = status
            /\ IF sink = "temp"
               THEN pc' = "copy" /\ i' = i
               ELSE pc' = "loop" /\ i' = i + 1
    /\ UNCHANGED <<matches, stdin_bytes, fs, excluded, paths, gi,
                   iter, bufw, stdout_lines, stdout_bytes, testVars>>

FlushErr ==
    /\ pc = "flush"
    /\ UnitErr
    /\ UNCHANGED <<matches, stdin_bytes, fs, excluded, paths, gi, i,
                   iter, sink, bufw, stdout_lines, stdout_bytes, testVars>>

\* line 269: fs::copy(temp.path(), path) opens the destination for writing,
\* which truncates it
CopyOpen ==
    /\ pc = "copy"
    /\ fs' = [fs EXCEPT ![FileOf(paths[i])] = <<>>]
    /\ handles' = handles \cup {"copy"}
    /\ pc' = "copy_write"
    /\ UNCHANGED <<matches, stdin_bytes, status, excluded, paths, gi, i, temp,
                   iter, sink, bufw, stdout_lines, stdout_bytes, testVars>>

\* line 269: fs::copy(..)? fails before the destination is opened
CopyOpenErr ==
    /\ pc = "copy"
    /\ ReturnErr
    /\ UNCHANGED <<matches, stdin_bytes, fs, excluded, paths, gi, i,
                   iter, sink, bufw, stdout_lines, stdout_bytes, testVars>>

\* line 269: fs::copy writes the temp file's bytes into the destination; lines
\* 270-271: the loop body ends, temp is dropped and its file deleted
CopyWrite ==
    /\ pc = "copy_write"
    /\ fs' = [fs EXCEPT ![FileOf(paths[i])] = temp.content]
    /\ handles' = handles \ {"copy"}
    /\ temp' = NoTemp
    /\ i' = i + 1
    /\ pc' = "loop"
    /\ UNCHANGED <<matches, stdin_bytes, status, excluded, paths, gi,
                   iter, sink, bufw, stdout_lines, stdout_bytes, testVars>>

\* line 269: fs::copy(..)? fails while it writes
CopyWriteErr ==
    /\ pc = "copy_write"
    /\ ReturnErr
    /\ UNCHANGED <<matches, stdin_bytes, fs, excluded, paths, gi, i,
                   iter, sink, bufw, stdout_lines, stdout_bytes, testVars>>

Next ==
    \/ StdinToStdout
    \/ StdinToFile
    \/ StdinNotFile
    \/ StdinOpenFile
    \/ StdinOpenErr
    \/ BaseStart
    \/ GlobExclude
    \/ GlobExcludeInvalid
    \/ GlobInclude
    \/ GlobIncludeInvalid
    \/ GlobError
    \/ ReturnOk
    \/ DryRunPrint
    \/ DryRunPrintErr
    \/ DebugUnit
    \/ TempEmpty
    \/ TempEmptyPanic
    \/ TempOpen
    \/ TempOpenErr
    \/ FileOpen
    \/ FileOpenErr
    \/ ConvertIter
    \/ ConvertEnd
    \/ ReadErr
    \/ WriteErr
    \/ Flush
    \/ FlushErr
    \/ CopyOpen
    \/ CopyOpenErr
    \/ CopyWrite
    \/ CopyWriteErr

Spec == Init /\ [][Next]_vars

----------------------------------------------------------------------------
(* The transform as the unit tests drive it: tests::test, lines 339-344 *)

InitT ==
    /\ t_eol \in Eols
    /\ t_in \in Inputs
    /\ t_out = <<>>
    /\ matches = [sub |-> "stdin", eol |-> t_eol, debug |-> TRUE, dry_run |-> FALSE,
                  include |-> <<>>, exclude |-> <<>>, file |-> "", stdout |-> FALSE]
    /\ stdin_bytes = <<>>
    /\ fs = Disk0
    /\ pc = "exited"
    /\ status = "ok"
    /\ excluded = {}
    /\ paths = <<>>
    /\ gi = 1
    /\ i = 1
    /\ temp = NoTemp
    /\ handles = {}
    /\ iter = <<>>
    /\ sink = "none"
    /\ bufw = <<>>
    /\ stdout_lines = <<>>
    /\ stdout_bytes = <<>>

\* test(eol, input)
TransformOnce ==
    /\ t_out = <<>>
    /\ t_out' = <<test(t_eol, t_in)>>
    /\ UNCHANGED <<t_eol, t_in, runVars>>

\* test(eol, &test(eol, input)): the output converted again, same target
TransformAgain ==
    /\ Len(t_out) = 1
    /\ t_out' = Append(t_out, test(t_eol, t_out[1]))
    /\ UNCHANGED <<t_eol, t_in, runVars>>

NextT == TransformOnce \/ TransformAgain

SpecT == InitT /\ [][NextT]_vars

----------------------------------------------------------------------------
(* What the claims are stated with *)

\* the byte sequence of a target: LF is \n, CRLF is \r\n, CR is \r
EolBytes(e) == IF e = "Lf" THEN <<LF>> ELSE IF e = "Crlf" THEN <<CR, LF>> ELSE <<CR>>

\* what position k of s contributes under greedy left-to-right tokenising: a CR
\* starts a line break (a \r\n pair or a lone \r), an LF right after a CR is the
\* second byte of that pair, any other LF is a lone \n, any other byte is itself
Contribution(s, k, t) ==
    IF s[k] = CR THEN t
    ELSE IF s[k] = LF THEN (IF k > 1 /\ s[k - 1] = CR THEN <<>> ELSE t)
    ELSE <<s[k]>>

RECURSIVE TokenisedUpTo(_, _, _)
TokenisedUpTo(s, k, t) ==
    IF k = 0 THEN <<>> ELSE TokenisedUpTo(s, k - 1, t) \o Contribution(s, k, t)

Tokenised(s, t) == TokenisedUpTo(s, Len(s), t)

\* s with each CR shown as backslash r and each LF as backslash n
RECURSIVE EscapedUpTo(_, _)
EscapedUpTo(s, k) ==
    IF k = 0 THEN <<>>
    ELSE EscapedUpTo(s, k - 1) \o
         (IF s[k] = CR THEN <<92, 114>> ELSE IF s[k] = LF THEN <<92, 110>> ELSE <<s[k]>>)

Escaped(s) == EscapedUpTo(s, Len(s))

IsPrefix(s, t) == Len(s) <= Len(t) /\ \A k \in DOMAIN s : s[k] = t[k]

\* the complete converted content of what file f held when the run started
Converted(f) == Tokenised(Disk0[f], EolBytes(matches.eol))

\* the files the exclude patterns of the command line match
ExcludeMatched ==
    {FileOf(q) : q \in UNION {Range(FilterFiles(Glob(p))) : p \in Range(matches.exclude)}}

AnyInvalid == \E p \in Range(matches.include) \cup Range(matches.exclude) : PatternError(p)

\* the run ended on a failure inside the loop's unit i, files being converted
FailedInUnit ==
    /\ matches.sub = "base"
    /\ ~matches.dry_run
    /\ ~matches.debug
    /\ pc = "exited"
    /\ \/ status \in {"err_return", "panic"}
       \/ status = "exit_with_error" /\ sink = "temp"

\* what the debug branch of the base command has to send to stdout for paths[1..k]
RECURSIVE DebugExpected(_)
DebugExpected(k) ==
    IF k = 0 THEN <<>>
    ELSE DebugExpected(k - 1) \o
         Escaped(convert(Disk0[FileOf(paths[k])], transform_fn(matches.eol), FALSE))

----------------------------------------------------------------------------
(* The claims *)

\* C1: for every input and target, the transform's output is the greedy
\* left-to-right tokenisation of the input: every \r\n pair, lone \r (a last
\* byte \r too) and lone \n becomes one copy of the target's bytes, every other
\* byte is kept in place; empty input gives empty output.
C1_TransformTokenises ==
    Len(t_out) >= 1 =>
        /\ t_out[1] = Tokenised(t_in, EolBytes(t_eol))
        /\ t_in = <<>> => t_out[1] = <<>>

C1_Witness ==
    /\ Len(t_out) >= 1
    /\ t_in = <<CR, LF, CR>>
    /\ t_eol = "Crlf"
    /\ t_out[1] = <<CR, LF, CR, LF>>

\* C2: the transform is idempotent: converting its own output again with the
\* same target gives the same bytes.
C2_Idempotent == Len(t_out) = 2 => t_out[2] = t_out[1]

C2_Witness ==
    /\ Len(t_out) = 2
    /\ t_eol = "Crlf"
    /\ t_in = <<OtherByte, LF>>
    /\ t_out[1] = <<OtherByte, CR, LF>>

\* C3: a file matched by an include pattern and by an exclude pattern is never
\* in the paths the base command processes, however the patterns spell it.
C3_ExcludeDominates ==
    (matches.sub = "base" /\ pc = "loop") =>
        \A k \in DOMAIN paths : FileOf(paths[k]) \notin ExcludeMatched

\* C4: no path occurs twice in the sequence of paths main iterates over.
C4_Deduplicated ==
    (matches.sub = "base" /\ pc = "loop") =>
        \A j, k \in DOMAIN paths : j # k => paths[j] # paths[k]

\* C5: at every moment of a run every file holds either its complete original
\* content or the complete converted content, never an empty, truncated or
\* partly converted one.
C5_AllOrNothing ==
    \A f \in Files :
        \/ fs[f] = Disk0[f]
        \/ matches.sub = "base" /\ fs[f] = Converted(f)
        \/ /\ matches.sub = "stdin"
           /\ f = FileOf(matches.file)
           /\ fs[f] = Tokenised(stdin_bytes, EolBytes(matches.eol))

\* C6: with an invalid pattern anywhere in the include or exclude list, the base
\* command never reaches its processing loop, changes no file, creates no temp
\* file, and when it has ended it has ended through exit_with_error (status 1).
C6_FailFast ==
    (matches.sub = "base" /\ AnyInvalid) =>
        /\ pc \in {"main", "exclude", "include", "exited"}
        /\ fs = Disk0
        /\ ~temp.exists
        /\ pc = "exited" => status = "exit_with_error"

C6_Witness ==
    /\ matches.sub = "base"
    /\ ~matches.dry_run
    /\ ~matches.debug
    /\ Len(matches.include) >= 2
    /\ ~PatternError(matches.include[1])
    /\ PatternError(matches.include[Len(matches.include)])
    /\ Len(paths) >= 1
    /\ pc = "exited"
    /\ status = "exit_with_error"

\* C7: in dry-run mode, with or without debug, the base command changes no
\* file, opens no input, creates no temp file, sends no converted bytes
\* anywhere, and prints one line per entry of paths, in the order of paths.
C7_DryRunFrame ==
    (matches.sub = "base" /\ matches.dry_run) =>
        /\ fs = Disk0
        /\ ~temp.exists
        /\ handles = {}
        /\ sink = "none"
        /\ stdout_bytes = <<>>
        /\ pc \in {"main", "exclude", "include", "loop", "exited"}
        /\ IsPrefix(stdout_lines, paths)
        /\ pc = "loop" => Len(stdout_lines) = i - 1
        /\ status = "ok" => stdout_lines = paths

C7_Witness ==
    /\ matches.sub = "base"
    /\ matches.dry_run
    /\ matches.debug
    /\ status = "ok"
    /\ Len(paths) >= 2
    /\ stdout_lines = paths

\* C8: when unit i fails the run ends with a non-zero status, every unit before
\* i holds its fully converted content and no unit after i has been modified.
C8_HaltOnFirstError ==
    FailedInUnit =>
        /\ status # "ok"
        /\ i \in DOMAIN paths
        /\ \A j \in 1..(i - 1) : fs[FileOf(paths[j])] = Converted(FileOf(paths[j]))
        /\ \A j \in (i + 1)..Len(paths) : fs[FileOf(paths[j])] = Disk0[FileOf(paths[j])]

\* C9: whenever the run has ended, no temp file of a unit exists and no file
\* handle is open.
C9_Released == pc = "exited" => (~temp.exists /\ handles = {})

\* C10: with debug set, the bytes that reach stdout are the non-debug output of
\* the transform with each CR shown as backslash r and each LF as backslash n;
\* in the base command with debug and without dry-run the output goes to stdout
\* only and no file is modified.
C10_DebugDecorator ==
    /\ (matches.sub = "stdin" /\ matches.debug /\ status = "ok") =>
           stdout_bytes = Escaped(convert(stdin_bytes, transform_fn(matches.eol), FALSE))
    /\ (matches.sub = "base" /\ matches.debug /\ ~matches.dry_run) =>
           /\ fs = Disk0
           /\ ~temp.exists
           /\ sink \in {"none", "stdout"}
           /\ stdout_lines = <<>>
           /\ pc = "loop" => stdout_bytes = DebugExpected(i - 1)
           /\ status = "ok" => stdout_bytes = DebugExpected(Len(paths))

C10_Witness ==
    /\ matches.sub = "base"
    /\ matches.debug
    /\ ~matches.dry_run
    /\ matches.eol = "Crlf"
    /\ status = "ok"
    /\ Len(paths) >= 2
    /\ stdout_bytes # <<>>

====
